---- MODULE Spec2Model ----
(***************************************************************************)
(* FilmTagger: the metadata-apply worker (ui/workers.py, ExifWriteWorker)  *)
(* and the main window's image collection, batch/selection editors and     *)
(* task builder (ui/main_window.py).                                       *)
(***************************************************************************)
EXTENDS Integers, Sequences, FiniteSets, TLC

\* ------------------------------------------------------------------ bounds
\* Largest number of tasks handed to one apply run.
MaxTasks == 3

\* Largest number of image files found in one roll folder.
MaxImages == 2

\* Largest number of user actions (roll loads, edits, selection changes, apply)
\* in one session.
MaxActions == 3

\* ------------------------------------------------------------------ state
VARIABLES
    \* ExifWriteWorker (ui/workers.py)
    tasks,           \* self.tasks: sequence of <<image_path, metadata_dict>>
    backup_enabled,  \* self.backup_enabled
    is_running,      \* self.is_running, cleared by stop()
    pc,              \* position of run(): "idle", "start", "loop", "copy", "write", "done"
    idx,             \* loop index of run(), 0-based as in enumerate()
    backup_path,     \* local backup_path of run(): "" until the folder name is built
    log,             \* what run() and stop() did, in order (observations only)
    finished,        \* the finished(bool, str) signals emitted so far, in order
    \* MainWindow (ui/main_window.py)
    image_data,        \* self.image_data: <<path, record>> pairs in insertion order
    filmstrip_list,    \* items of the list widget: the path each item carries
    selected,          \* positions of the selected items of filmstrip_list
    camera_combo,      \* [items, index] of the camera selector
    film_stock_combo,  \* [items, index] of the film-stock selector
    lens_combo,        \* [items, index] of the lens selector
    roll_notes_edit,   \* text of the roll notes editor
    aperture_edit,     \* text of the aperture field
    shutter_edit,      \* text of the shutter-speed field
    progress_bar,      \* [value, maximum] of the progress bar
    backup_checkbox,   \* state of the "Create temporary backup" checkbox
    thumbnail_workers, \* per path, the thumbnail workers started that have not reported yet
    is_updating_ui,    \* self._is_updating_ui
    ui_enabled,        \* what _set_ui_enabled last set
    preset_files,      \* the stored presets: category -> name -> fields
    \* ThumbnailWorker units (ui/workers.py) and their queued finished signals
    thumb_units,       \* per path, the unit created for it: [pc, is_running, tested, emitted]
    thumb_signals,     \* finished(path, icon) signals emitted and not yet handled, in order
    \* PresetEditorDialog (ui/preset_editor.py)
    editor_presets,    \* self.presets of the dialog's tab of each category
    \* history of the session (observations only)
    image_files,       \* the file list of the latest roll load
    edited,            \* the metadata fields the user has edited so far
    actions            \* number of user actions so far

worker_vars == <<tasks, backup_enabled, is_running, pc, idx, backup_path, log, finished>>

ui_vars == <<image_data, filmstrip_list, selected, camera_combo, film_stock_combo, lens_combo,
             roll_notes_edit, aperture_edit, shutter_edit, progress_bar, backup_checkbox,
             thumbnail_workers, is_updating_ui, ui_enabled, preset_files,
             thumb_units, thumb_signals, editor_presets,
             image_files, edited, actions>>

unit_vars == <<thumb_units, thumb_signals, editor_presets>>

vars == <<tasks, backup_enabled, is_running, pc, idx, backup_path, log, finished,
          image_data, filmstrip_list, selected, camera_combo, film_stock_combo, lens_combo,
          roll_notes_edit, aperture_edit, shutter_edit, progress_bar, backup_checkbox,
          thumbnail_workers, is_updating_ui, ui_enabled, preset_files,
          thumb_units, thumb_signals, editor_presets,
          image_files, edited, actions>>

\* ------------------------------------------------------------------ helpers
Range(s) == {s[i] : i \in 1..Len(s)}

IsInjective(s) == \A i, j \in 1..Len(s) : s[i] = s[j] => i = j

\* Image files are identified by numbers; a file's number stands for its path
\* and for its basename (all files of a roll live in one directory).
Files == 1..MaxTasks

NoFile == 0

EmptyDict == <<>>

\* The folder name built at workers.py:90 (the timestamp is abstracted).
BackupFolder == "FilmTagger/Backup_ts"

\* ------------------------------------------------------------ ExifWriteWorker
\* progress_percent = int((idx + 1) / total_files * 100), in IEEE doubles.
\* For total_files < 60 the double computation equals the exact floor except
\* at 29/50, where 29/50*100 = 57.99999999999999 truncates to 57.
ProgressPercent(k, total) ==
    IF k = 29 /\ total = 50 THEN 57 ELSE (k * 100) \div total

\* Mutant of ErrorMessage: the message refers to the backup folder even when no
\* backup was made.
ErrorMessage_AlwaysBackup(error, file, path) ==
    [error |-> error, file |-> file, safe_in |-> <<path>>]

\* The str argument of finished(False, ...): the f-string of workers.py:117.
\* error names what was raised, file the file the exception text names.
\* safe_in holds the backup folder the message refers to, if it refers to one.
ErrorMessage(error, file, path) ==
    IF backup_enabled
    THEN [error |-> error, file |-> file, safe_in |-> <<path>>]
    ELSE [error |-> error, file |-> file, safe_in |-> <<>>]

\* The except clause, lines 115-118: self.finished.emit(False, error_message).
EmitFailure(error, file, path) ==
    /\ finished' = Append(finished,
                          [success |-> FALSE, message |-> ErrorMessage(error, file, path)])
    /\ pc' = "done"

\* Mutant of WorkerStart: a backup folder that cannot be created does not end
\* the run.
WorkerStart_IgnoresMkdirFailure ==
    /\ pc = "start"
    /\ IF backup_enabled
       THEN /\ backup_path' = BackupFolder
            /\ \E ok \in BOOLEAN :
                  log' = Append(log, [ev |-> "mkdir", idx |-> 0, file |-> NoFile, ok |-> ok])
            /\ pc' = "loop"
            /\ UNCHANGED finished
       ELSE /\ pc' = "loop"
            /\ UNCHANGED <<backup_path, log, finished>>
    /\ UNCHANGED <<tasks, backup_enabled, is_running, idx>>
    /\ UNCHANGED ui_vars

\* run(), lines 82-92: build the backup folder name and create the folder.
\* os.makedirs either succeeds or raises (caught at line 115).
WorkerStart ==
    /\ pc = "start"
    /\ IF backup_enabled
       THEN /\ backup_path' = BackupFolder
            /\ \/ /\ log' = Append(log, [ev |-> "mkdir", idx |-> 0, file |-> NoFile, ok |-> TRUE])
                  /\ pc' = "loop"
                  /\ UNCHANGED finished
               \/ /\ log' = Append(log, [ev |-> "mkdir", idx |-> 0, file |-> NoFile, ok |-> FALSE])
                  /\ EmitFailure("makedirs", NoFile, BackupFolder)
       ELSE /\ pc' = "loop"
            /\ UNCHANGED <<backup_path, log, finished>>
    /\ UNCHANGED <<tasks, backup_enabled, is_running, idx>>
    /\ UNCHANGED ui_vars

\* Mutant of WorkerLoopHead: the stop flag is not tested.
WorkerLoopHead_NoStopTest ==
    /\ pc = "loop"
    /\ IF idx >= Len(tasks)
       THEN /\ finished' = Append(finished, [success |-> TRUE, message |-> backup_path])
            /\ pc' = "done"
            /\ UNCHANGED log
       ELSE /\ log' = Append(log, [ev |-> "progress", idx |-> idx, file |-> tasks[idx + 1][1],
                                   ok |-> TRUE,
                                   percent |-> ProgressPercent(idx + 1, Len(tasks))])
            /\ pc' = "copy"
            /\ UNCHANGED finished
    /\ UNCHANGED <<tasks, backup_enabled, is_running, idx, backup_path>>
    /\ UNCHANGED ui_vars

\* run(), lines 95-101 and 113: the head of one loop iteration. After the last
\* task the loop ends and finished(True, backup_path) is emitted; otherwise the
\* stop flag is tested and the progress signal emitted.
WorkerLoopHead ==
    /\ pc = "loop"
    /\ IF idx >= Len(tasks)
       THEN /\ finished' = Append(finished, [success |-> TRUE, message |-> backup_path])
            /\ pc' = "done"
            /\ UNCHANGED log
       ELSE IF ~is_running
       THEN /\ EmitFailure("cancelled", NoFile, backup_path)
            /\ UNCHANGED log
       ELSE /\ log' = Append(log, [ev |-> "progress", idx |-> idx, file |-> tasks[idx + 1][1],
                                   ok |-> TRUE,
                                   percent |-> ProgressPercent(idx + 1, Len(tasks))])
            /\ pc' = "copy"
            /\ UNCHANGED finished
    /\ UNCHANGED <<tasks, backup_enabled, is_running, idx, backup_path>>
    /\ UNCHANGED ui_vars

\* Mutant of WorkerCopy: the file is written without being copied first.
WorkerCopy_Skipped ==
    /\ pc = "copy"
    /\ pc' = "write"
    /\ UNCHANGED <<tasks, backup_enabled, is_running, idx, backup_path, log, finished>>
    /\ UNCHANGED ui_vars

\* Mutant of WorkerCopy: a copy that raises does not end the run.
WorkerCopy_ContinuesAfterFailure ==
    /\ pc = "copy"
    /\ IF backup_enabled
       THEN \E ok \in BOOLEAN :
               /\ log' = Append(log, [ev |-> "copy", idx |-> idx, file |-> tasks[idx + 1][1],
                                      ok |-> ok])
               /\ pc' = "write"
               /\ UNCHANGED finished
       ELSE /\ pc' = "write"
            /\ UNCHANGED <<log, finished>>
    /\ UNCHANGED <<tasks, backup_enabled, is_running, idx, backup_path>>
    /\ UNCHANGED ui_vars

\* run(), lines 104-105: shutil.copy2 into the backup folder; it may raise.
WorkerCopy ==
    /\ pc = "copy"
    /\ IF backup_enabled
       THEN \/ /\ log' = Append(log, [ev |-> "copy", idx |-> idx, file |-> tasks[idx + 1][1],
                                      ok |-> TRUE])
               /\ pc' = "write"
               /\ UNCHANGED finished
            \/ /\ log' = Append(log, [ev |-> "copy", idx |-> idx, file |-> tasks[idx + 1][1],
                                      ok |-> FALSE])
               /\ EmitFailure("copy2", tasks[idx + 1][1], backup_path)
       ELSE /\ pc' = "write"
            /\ UNCHANGED <<log, finished>>
    /\ UNCHANGED <<tasks, backup_enabled, is_running, idx, backup_path>>
    /\ UNCHANGED ui_vars

\* Mutant of WorkerWrite: a write that returns False does not end the run.
WorkerWrite_ContinuesAfterFailure ==
    /\ pc = "write"
    /\ \E result \in {"ok", "false", "raised"} :
        /\ log' = Append(log, [ev |-> "write", idx |-> idx, file |-> tasks[idx + 1][1],
                               ok |-> (result = "ok"), result |-> result])
        /\ IF result = "raised"
           THEN /\ EmitFailure("write_metadata raised", NoFile, backup_path)
                /\ UNCHANGED idx
           ELSE /\ idx' = idx + 1
                /\ pc' = "loop"
                /\ UNCHANGED finished
    /\ UNCHANGED <<tasks, backup_enabled, is_running, backup_path>>
    /\ UNCHANGED ui_vars

\* run(), lines 108-110: exiftool_manager.write_metadata returns True or False,
\* or raises; False raises IOError naming the file.
WorkerWrite ==
    /\ pc = "write"
    /\ \E result \in {"ok", "false", "raised"} :
        /\ log' = Append(log, [ev |-> "write", idx |-> idx, file |-> tasks[idx + 1][1],
                               ok |-> (result = "ok"), result |-> result])
        /\ CASE result = "ok" ->
                    /\ idx' = idx + 1
                    /\ pc' = "loop"
                    /\ UNCHANGED finished
             [] result = "false" ->
                    /\ EmitFailure("Failed to write metadata", tasks[idx + 1][1], backup_path)
                    /\ UNCHANGED idx
             [] result = "raised" ->
                    /\ EmitFailure("write_metadata raised", NoFile, backup_path)
                    /\ UNCHANGED idx
    /\ UNCHANGED <<tasks, backup_enabled, is_running, backup_path>>
    /\ UNCHANGED ui_vars

\* stop(), lines 78-79, called from another thread while the run is in flight.
WorkerStop ==
    /\ pc \in {"start", "loop", "copy", "write"}
    /\ is_running
    /\ is_running' = FALSE
    /\ log' = Append(log, [ev |-> "stop", idx |-> idx, file |-> NoFile, ok |-> TRUE, at |-> pc])
    /\ UNCHANGED <<tasks, backup_enabled, pc, idx, backup_path, finished>>
    /\ UNCHANGED ui_vars

\* ------------------------------------------------------- Python dictionaries
\* A dict is a function from its keys; None stands for Python's None.
None == "None"

\* Python truthiness of a str-or-None value.
Truthy(v) == v # None /\ v # ""

\* d.get(k)
Get(d, k) == IF k \in DOMAIN d THEN d[k] ELSE None

\* d.get(k, default)
GetOr(d, k, default) == IF k \in DOMAIN d THEN d[k] ELSE default

\* d[k] = v
Put(d, k, v) == [x \in DOMAIN d \cup {k} |-> IF x = k THEN v ELSE d[x]]

\* d.update(e)
Update(d, e) == [x \in DOMAIN d \cup DOMAIN e |-> IF x \in DOMAIN e THEN e[x] ELSE d[x]]

\* {k: v for k, v in d.items() if v}
Cleaned(d) == [x \in {k \in DOMAIN d : Truthy(d[k])} |-> d[x]]

\* ------------------------------------------------------------ preset storage
PRESET_TYPES == {"cameras", "lenses", "film_stocks"}

\* Every preset name of the model, in the order of Python's sorted().
PresetNames == <<"", "Canon A1", "FD 50mm", "Nikon F3", "Portra 400">>

\* sorted(names)
Sorted(names) == SelectSeq(PresetNames, LAMBDA n : n \in names)

\* preset_manager.load_presets: the stored mapping of the category, {} if none.
load_presets(preset_type) ==
    IF preset_type \in DOMAIN preset_files THEN preset_files[preset_type] ELSE EmptyDict

\* The presets stored when the session starts.
StoredPresets ==
    [cameras |-> [x \in {"Canon A1"} |-> [Make |-> "Canon", Model |-> "A1"]],
     film_stocks |-> [x \in {"Portra 400"} |-> [ISO |-> "400", FilmType |-> ""]],
     lenses |-> [x \in {"FD 50mm"} |-> [LensModel |-> "nFD", FNumber |-> "1.4"]]]

\* ------------------------------------------------------------------ widgets
CameraPlaceholder == "--- Select Camera ---"

FilmStockPlaceholder == "--- Select Film Stock ---"

LensPlaceholder == "--- Select Lens ---"

\* combo.clear(); combo.addItem(placeholder); combo.addItems(sorted(presets.keys()))
PopulatedCombo(placeholder, presets) ==
    [items |-> <<placeholder>> \o Sorted(DOMAIN presets), index |-> 0]

\* combo.itemText(index); index is 0-based, and the text of an index that is
\* no item's (-1 in an empty combo) is the empty string.
itemText(combo, index) ==
    IF index + 1 \in 1..Len(combo.items) THEN combo.items[index + 1] ELSE ""

\* combo.setCurrentText(text) of a non-editable combo: the index moves to the
\* item with that text, and stays when there is none.
setCurrentText(combo, text) ==
    IF \E i \in 1..Len(combo.items) : combo.items[i] = text
    THEN [combo EXCEPT !.index = (CHOOSE i \in 1..Len(combo.items) : combo.items[i] = text) - 1]
    ELSE combo

\* progress_bar.setValue(v): a value outside [0, maximum] is ignored.
setValue(bar, v) == IF v < 0 \/ v > bar.maximum THEN bar ELSE [bar EXCEPT !.value = v]

\* Texts the user types into the free-text fields.
NotesTexts == {"", "roll 1"}

ApertureTexts == {"", "8"}

ShutterTexts == {"", "125"}

\* ------------------------------------------------------- image collection
\* Paths of the image files of a roll folder.
Paths == 1..MaxImages

\* What os.listdir can return for a roll folder, filtered by extension: the
\* order is the file system's, not sorted (here n, n-1, ..., 1); folders of
\* different sizes share files.
Listings == {[i \in 1..n |-> n + 1 - i] : n \in 0..MaxImages}

\* The keys of image_data.
Keys(data) == {data[i][1] : i \in 1..Len(data)}

\* image_data[path]
Record(data, path) == data[CHOOSE i \in 1..Len(data) : data[i][1] = path][2]

\* Mutant of SetField: the record is replaced by one holding only the field.
SetField_ReplacesRecord(data, paths, field, value) ==
    [i \in 1..Len(data) |->
        IF data[i][1] \in paths
        THEN <<data[i][1], Put(EmptyDict, field, value)>>
        ELSE data[i]]

\* for path in paths: if path in image_data: image_data[path][field] = value
SetField(data, paths, field, value) ==
    [i \in 1..Len(data) |->
        IF data[i][1] \in paths
        THEN <<data[i][1], Put(data[i][2], field, value)>>
        ELSE data[i]]

\* The fields of a record written by the batch panel and by the selection panel.
BatchFields == {"Camera", "FilmStock", "RollNotes"}

SelectionFields == {"Lens", "Aperture", "ShutterSpeed"}

\* The paths carried by the selected items of the list widget.
SelectedPaths == {filmstrip_list[i] : i \in selected}

\* ------------------------------------------------ batch/selection handlers
\* Each handler returns the image collection it leaves; updating is the value
\* of _is_updating_ui when the handler runs.
on_batch_camera_changed(updating, data, combo, index) ==
    IF updating THEN data
    ELSE SetField(data, Keys(data), "Camera", itemText(combo, index))

on_batch_film_stock_changed(updating, data, combo, index) ==
    IF updating THEN data
    ELSE SetField(data, Keys(data), "FilmStock", itemText(combo, index))

on_batch_notes_changed(updating, data, notes) ==
    IF updating THEN data
    ELSE SetField(data, Keys(data), "RollNotes", notes)

on_selection_lens_changed(updating, data, paths, combo, index) ==
    IF updating THEN data
    ELSE SetField(data, paths, "Lens", itemText(combo, index))

\* Mutant of on_selection_aperture_changed: the value is written into every
\* record of the collection, selected or not.
on_selection_aperture_changed_AllImages(updating, data, paths, text) ==
    IF updating THEN data
    ELSE SetField(data, Keys(data), "Aperture", text)

on_selection_aperture_changed(updating, data, paths, text) ==
    IF updating THEN data
    ELSE SetField(data, paths, "Aperture", text)

on_selection_shutter_changed(updating, data, paths, text) ==
    IF updating THEN data
    ELSE SetField(data, paths, "ShutterSpeed", text)

\* Mutant of on_filmstrip_selection_changed: _is_updating_ui is not raised, so
\* the change signals of the selection widgets reach the selection handlers
\* as if the user had edited the fields.
on_filmstrip_selection_changed_GuardNotRaised(items, sel) ==
    LET one == CHOOSE i \in sel : TRUE
        path == items[one]
        data == IF path \in Keys(image_data) THEN Record(image_data, path) ELSE EmptyDict
        lens == IF Cardinality(sel) = 1
                THEN setCurrentText(lens_combo, GetOr(data, "Lens", LensPlaceholder))
                ELSE [lens_combo EXCEPT !.index = 0]
        aperture == IF Cardinality(sel) = 1 THEN GetOr(data, "Aperture", "") ELSE ""
        shutter == IF Cardinality(sel) = 1 THEN GetOr(data, "ShutterSpeed", "") ELSE ""
        paths == {items[i] : i \in sel}
    IN  /\ lens_combo' = lens
        /\ aperture_edit' = aperture
        /\ shutter_edit' = shutter
        /\ image_data' =
              on_selection_shutter_changed(shutter = shutter_edit,
                  on_selection_aperture_changed(aperture = aperture_edit,
                      on_selection_lens_changed(lens.index = lens_combo.index,
                                                image_data, paths, lens, lens.index),
                      paths, aperture),
                  paths, shutter)
        /\ is_updating_ui' = FALSE

\* _on_filmstrip_selection_changed with the given selected positions: the
\* selection widgets are set with _is_updating_ui raised, so the change signals
\* they emit reach the selection handlers with updating = TRUE.
on_filmstrip_selection_changed(items, sel) ==
    LET one == CHOOSE i \in sel : TRUE
        path == items[one]
        data == IF path \in Keys(image_data) THEN Record(image_data, path) ELSE EmptyDict
        lens == IF Cardinality(sel) = 1
                THEN setCurrentText(lens_combo, GetOr(data, "Lens", LensPlaceholder))
                ELSE [lens_combo EXCEPT !.index = 0]
        aperture == IF Cardinality(sel) = 1 THEN GetOr(data, "Aperture", "") ELSE ""
        shutter == IF Cardinality(sel) = 1 THEN GetOr(data, "ShutterSpeed", "") ELSE ""
        paths == {items[i] : i \in sel}
    IN  /\ lens_combo' = lens
        /\ aperture_edit' = aperture
        /\ shutter_edit' = shutter
        /\ image_data' =
              on_selection_shutter_changed(TRUE,
                  on_selection_aperture_changed(TRUE,
                      on_selection_lens_changed(TRUE, image_data, paths, lens, lens.index),
                      paths, aperture),
                  paths, shutter)
        /\ is_updating_ui' = FALSE

\* --------------------------------------------------------------- task builder
\* Mutant of final_exif_cleaned: the Aperture override is applied before the
\* lens preset, so the preset's FNumber wins over it.
final_exif_cleaned_LensOverAperture(data, all_presets) ==
    LET camera_name == Get(data, "Camera")
        film_name == Get(data, "FilmStock")
        lens_name == Get(data, "Lens")
        e1 == IF Truthy(camera_name) /\ camera_name \in DOMAIN all_presets.cameras
              THEN Update(EmptyDict, all_presets.cameras[camera_name])
              ELSE EmptyDict
        e2 == IF Truthy(film_name) /\ film_name \in DOMAIN all_presets.film_stocks
              THEN Update(e1, all_presets.film_stocks[film_name])
              ELSE e1
        e3 == IF Truthy(Get(data, "Aperture")) THEN Put(e2, "FNumber", data["Aperture"]) ELSE e2
        e4 == IF Truthy(lens_name) /\ lens_name \in DOMAIN all_presets.lenses
              THEN Update(e3, all_presets.lenses[lens_name])
              ELSE e3
        e5 == IF Truthy(Get(data, "ShutterSpeed"))
              THEN Put(e4, "ShutterSpeedValue", data["ShutterSpeed"])
              ELSE e4
        e6 == IF Truthy(Get(data, "RollNotes"))
              THEN Put(e5, "ImageDescription", data["RollNotes"])
              ELSE e5
    IN  Cleaned(e6)

\* The body of the loop of _prepare_task_list for one record.
final_exif_cleaned(data, all_presets) ==
    LET camera_name == Get(data, "Camera")
        film_name == Get(data, "FilmStock")
        lens_name == Get(data, "Lens")
        e1 == IF Truthy(camera_name) /\ camera_name \in DOMAIN all_presets.cameras
              THEN Update(EmptyDict, all_presets.cameras[camera_name])
              ELSE EmptyDict
        e2 == IF Truthy(film_name) /\ film_name \in DOMAIN all_presets.film_stocks
              THEN Update(e1, all_presets.film_stocks[film_name])
              ELSE e1
        e3 == IF Truthy(lens_name) /\ lens_name \in DOMAIN all_presets.lenses
              THEN Update(e2, all_presets.lenses[lens_name])
              ELSE e2
        e4 == IF Truthy(Get(data, "Aperture")) THEN Put(e3, "FNumber", data["Aperture"]) ELSE e3
        e5 == IF Truthy(Get(data, "ShutterSpeed"))
              THEN Put(e4, "ShutterSpeedValue", data["ShutterSpeed"])
              ELSE e4
        e6 == IF Truthy(Get(data, "RollNotes"))
              THEN Put(e5, "ImageDescription", data["RollNotes"])
              ELSE e5
    IN  Cleaned(e6)

\* Mutant of prepare_task_list: the tasks come in the order of the sorted
\* paths instead of the order of insertion.
prepare_task_list_SortedByPath(data) ==
    LET all_presets == [cameras |-> load_presets("cameras"),
                        lenses |-> load_presets("lenses"),
                        film_stocks |-> load_presets("film_stocks")]
        rank(i) == 1 + Cardinality({j \in 1..Len(data) : data[j][1] < data[i][1]})
        at(k) == CHOOSE i \in 1..Len(data) : rank(i) = k
    IN  [k \in 1..Len(data) |->
            <<data[at(k)][1], final_exif_cleaned(data[at(k)][2], all_presets)>>]

\* _prepare_task_list: one task per item of image_data, in its order.
prepare_task_list(data) ==
    LET all_presets == [cameras |-> load_presets("cameras"),
                        lenses |-> load_presets("lenses"),
                        film_stocks |-> load_presets("film_stocks")]
    IN  [i \in 1..Len(data) |-> <<data[i][1], final_exif_cleaned(data[i][2], all_presets)>>]

\* ---------------------------------------------------------------- MainWindow
\* No unit, of a thumbnail worker or of the preset editor, exists.
NoUnit == [pc |-> "none", is_running |-> FALSE, tested |-> "none", emitted |-> 0,
           icon |-> "none"]

NoUnits ==
    /\ thumbnail_workers = [p \in Paths |-> 0]
    /\ thumb_units = [p \in Paths |-> NoUnit]
    /\ thumb_signals = <<>>
    /\ editor_presets = [t \in PRESET_TYPES |-> EmptyDict]

\* The widgets and flags after __init__.
WidgetsInit ==
    /\ selected = {}
    /\ camera_combo = PopulatedCombo(CameraPlaceholder, load_presets("cameras"))
    /\ film_stock_combo = PopulatedCombo(FilmStockPlaceholder, load_presets("film_stocks"))
    /\ lens_combo = PopulatedCombo(LensPlaceholder, load_presets("lenses"))
    /\ roll_notes_edit = ""
    /\ aperture_edit = ""
    /\ shutter_edit = ""
    /\ backup_checkbox = TRUE
    /\ is_updating_ui = FALSE
    /\ ui_enabled = TRUE
    /\ actions = 0

\* __init__: empty collection, selectors populated from the stored presets,
\* Qt's defaults for the progress bar, backups checked.
MainWindowInit ==
    /\ image_data = <<>>
    /\ filmstrip_list = <<>>
    /\ image_files = <<>>
    /\ progress_bar = [value |-> -1, maximum |-> 100]
    /\ WidgetsInit
    /\ NoUnits
    /\ edited = {}

\* No apply worker exists yet (write_worker = None).
NoWorker ==
    /\ tasks = <<>>
    /\ backup_enabled = FALSE
    /\ is_running = FALSE
    /\ pc = "idle"
    /\ idx = 0
    /\ backup_path = ""
    /\ log = <<>>
    /\ finished = <<>>

\* The user picks another camera in the batch panel.
BatchCameraChanged ==
    /\ ui_enabled /\ actions < MaxActions
    /\ \E index \in 0..(Len(camera_combo.items) - 1) :
        /\ index # camera_combo.index
        /\ camera_combo' = [camera_combo EXCEPT !.index = index]
        /\ image_data' = on_batch_camera_changed(is_updating_ui, image_data, camera_combo, index)
    /\ edited' = edited \cup {"Camera"}
    /\ actions' = actions + 1
    /\ UNCHANGED <<filmstrip_list, selected, film_stock_combo, lens_combo, roll_notes_edit,
                   aperture_edit, shutter_edit, progress_bar, backup_checkbox,
                   thumbnail_workers, is_updating_ui, ui_enabled, preset_files,
                   image_files>>
    /\ UNCHANGED worker_vars
    /\ UNCHANGED unit_vars

\* The user picks another film stock in the batch panel.
BatchFilmStockChanged ==
    /\ ui_enabled /\ actions < MaxActions
    /\ \E index \in 0..(Len(film_stock_combo.items) - 1) :
        /\ index # film_stock_combo.index
        /\ film_stock_combo' = [film_stock_combo EXCEPT !.index = index]
        /\ image_data' =
              on_batch_film_stock_changed(is_updating_ui, image_data, film_stock_combo, index)
    /\ edited' = edited \cup {"FilmStock"}
    /\ actions' = actions + 1
    /\ UNCHANGED <<filmstrip_list, selected, camera_combo, lens_combo, roll_notes_edit,
                   aperture_edit, shutter_edit, progress_bar, backup_checkbox,
                   thumbnail_workers, is_updating_ui, ui_enabled, preset_files,
                   image_files>>
    /\ UNCHANGED worker_vars
    /\ UNCHANGED unit_vars

\* The user changes the roll notes.
BatchNotesChanged ==
    /\ ui_enabled /\ actions < MaxActions
    /\ \E notes \in NotesTexts :
        /\ notes # roll_notes_edit
        /\ roll_notes_edit' = notes
        /\ image_data' = on_batch_notes_changed(is_updating_ui, image_data, notes)
    /\ edited' = edited \cup {"RollNotes"}
    /\ actions' = actions + 1
    /\ UNCHANGED <<filmstrip_list, selected, camera_combo, film_stock_combo, lens_combo,
                   aperture_edit, shutter_edit, progress_bar, backup_checkbox,
                   thumbnail_workers, is_updating_ui, ui_enabled, preset_files,
                   image_files>>
    /\ UNCHANGED worker_vars
    /\ UNCHANGED unit_vars

\* The user picks another lens in the selection panel.
SelectionLensChanged ==
    /\ ui_enabled /\ actions < MaxActions
    /\ \E index \in 0..(Len(lens_combo.items) - 1) :
        /\ index # lens_combo.index
        /\ lens_combo' = [lens_combo EXCEPT !.index = index]
        /\ image_data' = on_selection_lens_changed(is_updating_ui, image_data, SelectedPaths,
                                                   lens_combo, index)
    /\ edited' = edited \cup {"Lens"}
    /\ actions' = actions + 1
    /\ UNCHANGED <<filmstrip_list, selected, camera_combo, film_stock_combo, roll_notes_edit,
                   aperture_edit, shutter_edit, progress_bar, backup_checkbox,
                   thumbnail_workers, is_updating_ui, ui_enabled, preset_files,
                   image_files>>
    /\ UNCHANGED worker_vars
    /\ UNCHANGED unit_vars

\* The user changes the aperture text.
SelectionApertureChanged ==
    /\ ui_enabled /\ actions < MaxActions
    /\ \E text \in ApertureTexts :
        /\ text # aperture_edit
        /\ aperture_edit' = text
        /\ image_data' = on_selection_aperture_changed(is_updating_ui, image_data,
                                                       SelectedPaths, text)
    /\ edited' = edited \cup {"Aperture"}
    /\ actions' = actions + 1
    /\ UNCHANGED <<filmstrip_list, selected, camera_combo, film_stock_combo, lens_combo,
                   roll_notes_edit, shutter_edit, progress_bar, backup_checkbox,
                   thumbnail_workers, is_updating_ui, ui_enabled, preset_files,
                   image_files>>
    /\ UNCHANGED worker_vars
    /\ UNCHANGED unit_vars

\* The user changes the shutter-speed text.
SelectionShutterChanged ==
    /\ ui_enabled /\ actions < MaxActions
    /\ \E text \in ShutterTexts :
        /\ text # shutter_edit
        /\ shutter_edit' = text
        /\ image_data' = on_selection_shutter_changed(is_updating_ui, image_data,
                                                      SelectedPaths, text)
    /\ edited' = edited \cup {"ShutterSpeed"}
    /\ actions' = actions + 1
    /\ UNCHANGED <<filmstrip_list, selected, camera_combo, film_stock_combo, lens_combo,
                   roll_notes_edit, aperture_edit, progress_bar, backup_checkbox,
                   thumbnail_workers, is_updating_ui, ui_enabled, preset_files,
                   image_files>>
    /\ UNCHANGED worker_vars
    /\ UNCHANGED unit_vars

\* The user changes the selection of the list widget; the widget emits
\* itemSelectionChanged and _on_filmstrip_selection_changed runs.
FilmstripSelectionChanged ==
    /\ ui_enabled /\ actions < MaxActions
    /\ actions' = actions + 1
    /\ \E sel \in SUBSET (1..Len(filmstrip_list)) :
        /\ sel # selected
        /\ selected' = sel
        /\ on_filmstrip_selection_changed(filmstrip_list, sel)
    /\ UNCHANGED edited
    /\ UNCHANGED <<filmstrip_list, camera_combo, film_stock_combo, roll_notes_edit,
                   progress_bar, backup_checkbox, thumbnail_workers, ui_enabled,
                   preset_files, image_files>>
    /\ UNCHANGED worker_vars
    /\ UNCHANGED unit_vars

\* _load_roll with a folder chosen, holding the given image files. The list
\* widget is cleared (a non-empty selection is cleared with it, which runs the
\* selection handler), the collection is rebuilt, and one thumbnail worker is
\* started per file. The references to the workers of an earlier load are
\* dropped: each of them still in flight either reports later or never does.
LoadRoll ==
    /\ ui_enabled /\ actions < MaxActions
    /\ \E files \in Listings :
       \E surviving \in {w \in [Paths -> 0..MaxActions] :
                            \A p \in Paths : w[p] <= thumbnail_workers[p]} :
        /\ filmstrip_list' = <<>>
        /\ selected' = {}
        /\ IF selected # {}
           THEN /\ lens_combo' = [lens_combo EXCEPT !.index = 0]
                /\ aperture_edit' = ""
                /\ shutter_edit' = ""
           ELSE UNCHANGED <<lens_combo, aperture_edit, shutter_edit>>
        /\ image_data' = [i \in 1..Len(files) |-> <<files[i], EmptyDict>>]
        /\ image_files' = files
        /\ IF files = <<>>
           THEN UNCHANGED <<progress_bar, thumbnail_workers>>
           ELSE /\ progress_bar' = [value |-> 0, maximum |-> Len(files)]
                /\ thumbnail_workers' =
                      [p \in Paths |-> surviving[p] + (IF p \in Range(files) THEN 1 ELSE 0)]
        /\ files = <<>> => surviving = thumbnail_workers
    /\ actions' = actions + 1
    /\ UNCHANGED edited
    /\ UNCHANGED <<camera_combo, film_stock_combo, roll_notes_edit, backup_checkbox,
                   is_updating_ui, ui_enabled, preset_files>>
    /\ UNCHANGED worker_vars
    /\ UNCHANGED unit_vars

\* Mutant of add_thumbnail_to_filmstrip: a null icon is dropped without being
\* counted.
add_thumbnail_to_filmstrip_NullNotCounted(image_path, icon_is_null) ==
    LET current_value == progress_bar.value + 1 IN
    IF icon_is_null
    THEN UNCHANGED <<filmstrip_list, progress_bar, image_data>>
    ELSE /\ filmstrip_list' = Append(filmstrip_list, image_path)
         /\ progress_bar' = setValue(progress_bar, current_value)
         /\ image_data' =
               IF current_value = progress_bar.maximum
               THEN on_batch_film_stock_changed(is_updating_ui,
                        on_batch_camera_changed(is_updating_ui, image_data, camera_combo,
                                                camera_combo.index),
                        film_stock_combo, film_stock_combo.index)
               ELSE image_data

\* _add_thumbnail_to_filmstrip(image_path, icon): an item is added unless the
\* icon is null, the progress value is raised by one, and when it reaches the
\* maximum the camera and film-stock handlers are called with the current
\* index of their selectors.
add_thumbnail_to_filmstrip(image_path, icon_is_null) ==
    LET current_value == progress_bar.value + 1 IN
    /\ filmstrip_list' = IF icon_is_null THEN filmstrip_list
                         ELSE Append(filmstrip_list, image_path)
    /\ progress_bar' = setValue(progress_bar, current_value)
    /\ image_data' =
          IF current_value = progress_bar.maximum
          THEN on_batch_film_stock_changed(is_updating_ui,
                   on_batch_camera_changed(is_updating_ui, image_data, camera_combo,
                                           camera_combo.index),
                   film_stock_combo, film_stock_combo.index)
          ELSE image_data

\* A thumbnail worker's finished(path, icon) reaches _add_thumbnail_to_filmstrip;
\* the icon is null when decoding failed.
ThumbnailFinished ==
    /\ \E image_path \in Paths : \E icon_is_null \in BOOLEAN :
        /\ thumbnail_workers[image_path] > 0
        /\ thumbnail_workers' = [thumbnail_workers EXCEPT ![image_path] = @ - 1]
        /\ add_thumbnail_to_filmstrip(image_path, icon_is_null)
    /\ UNCHANGED <<selected, camera_combo, film_stock_combo, lens_combo, roll_notes_edit,
                   aperture_edit, shutter_edit, backup_checkbox, is_updating_ui, ui_enabled,
                   preset_files, image_files, edited, actions>>
    /\ UNCHANGED worker_vars
    /\ UNCHANGED unit_vars

\* ---------------------------------------------------- thumbnail worker units
\* Mutant of ThumbRunStart: run() does not test the stop flag.
ThumbRunStart_NoStopTest ==
    /\ \E p \in Paths :
        /\ thumb_units[p].pc = "created"
        /\ thumb_units' = [thumb_units EXCEPT
              ![p].tested = IF thumb_units[p].is_running THEN "running" ELSE "stopped",
              ![p].pc = "reading"]
    /\ UNCHANGED <<thumb_signals, editor_presets>>
    /\ UNCHANGED <<image_data, filmstrip_list, selected, camera_combo, film_stock_combo,
                   lens_combo, roll_notes_edit, aperture_edit, shutter_edit, progress_bar,
                   backup_checkbox, thumbnail_workers, is_updating_ui, ui_enabled,
                   preset_files, image_files, edited, actions>>
    /\ UNCHANGED worker_vars

\* ThumbnailWorker.run, lines 21-22, on the unit's thread: with the stop flag
\* set the run returns at once and emits nothing.
ThumbRunStart ==
    /\ \E p \in Paths :
        /\ thumb_units[p].pc = "created"
        /\ thumb_units' = [thumb_units EXCEPT
              ![p].tested = IF thumb_units[p].is_running THEN "running" ELSE "stopped",
              ![p].pc = IF thumb_units[p].is_running THEN "reading" ELSE "returned"]
    /\ UNCHANGED <<thumb_signals, editor_presets>>
    /\ UNCHANGED <<image_data, filmstrip_list, selected, camera_combo, film_stock_combo,
                   lens_combo, roll_notes_edit, aperture_edit, shutter_edit, progress_bar,
                   backup_checkbox, thumbnail_workers, is_updating_ui, ui_enabled,
                   preset_files, image_files, edited, actions>>
    /\ UNCHANGED worker_vars

\* ThumbnailWorker.run, lines 24-49: the image is read and finished is emitted
\* once, with the icon when the image was decoded (line 45) and with an empty
\* icon when it is null (line 37) or when something raised (line 49). The
\* signal is queued for the main thread.
ThumbRead ==
    /\ \E p \in Paths : \E outcome \in {"decoded", "null", "raised"} :
        /\ thumb_units[p].pc = "reading"
        /\ thumb_signals' = Append(thumb_signals, <<p, outcome # "decoded">>)
        /\ thumb_units' = [thumb_units EXCEPT
              ![p].emitted = @ + 1,
              ![p].icon = IF outcome = "decoded" THEN "icon" ELSE "null",
              ![p].pc = "returned"]
    /\ UNCHANGED editor_presets
    /\ UNCHANGED <<image_data, filmstrip_list, selected, camera_combo, film_stock_combo,
                   lens_combo, roll_notes_edit, aperture_edit, shutter_edit, progress_bar,
                   backup_checkbox, thumbnail_workers, is_updating_ui, ui_enabled,
                   preset_files, image_files, edited, actions>>
    /\ UNCHANGED worker_vars

\* ThumbnailWorker.stop, lines 51-53, called from another thread on a unit
\* that has not returned.
ThumbStop ==
    /\ \E p \in Paths :
        /\ thumb_units[p].pc \in {"created", "reading"}
        /\ thumb_units[p].is_running
        /\ thumb_units' = [thumb_units EXCEPT ![p].is_running = FALSE]
    /\ UNCHANGED <<thumb_signals, editor_presets>>
    /\ UNCHANGED <<image_data, filmstrip_list, selected, camera_combo, film_stock_combo,
                   lens_combo, roll_notes_edit, aperture_edit, shutter_edit, progress_bar,
                   backup_checkbox, thumbnail_workers, is_updating_ui, ui_enabled,
                   preset_files, image_files, edited, actions>>
    /\ UNCHANGED worker_vars

\* The main thread handles the oldest queued finished signal of a unit:
\* _add_thumbnail_to_filmstrip runs with the path and the icon it carries.
ThumbnailDelivered ==
    /\ thumb_signals # <<>>
    /\ LET image_path == Head(thumb_signals)[1]
           icon_is_null == Head(thumb_signals)[2]
       IN  /\ add_thumbnail_to_filmstrip(image_path, icon_is_null)
           /\ thumbnail_workers' = [thumbnail_workers EXCEPT ![image_path] = @ - 1]
    /\ thumb_signals' = Tail(thumb_signals)
    /\ UNCHANGED <<thumb_units, editor_presets>>
    /\ UNCHANGED <<selected, camera_combo, film_stock_combo, lens_combo, roll_notes_edit,
                   aperture_edit, shutter_edit, backup_checkbox, is_updating_ui, ui_enabled,
                   preset_files, image_files, edited, actions>>
    /\ UNCHANGED worker_vars

\* What the preset files can hold when the preset editor is closed: the
\* cameras and the lenses as they were stored at the start, or deleted.
EditorOutcomes ==
    [cameras : {StoredPresets.cameras, EmptyDict},
     film_stocks : {StoredPresets.film_stocks},
     lenses : {StoredPresets.lenses, EmptyDict}]

\* The combo in the middle of clear(): no item, index -1.
ClearedCombo == [items |-> <<>>, index |-> -1]

\* open_preset_editor: the dialog runs and leaves the preset files as the
\* user's operations in it made them; then _populate_preset_combos rebuilds
\* the three selectors. clear() moves the index of a selector to -1 and
\* addItem of the placeholder moves it to 0: each emits currentIndexChanged,
\* which runs the selector's handler.
OpenPresetEditor ==
    /\ ui_enabled /\ actions < MaxActions
    /\ actions' = actions + 1
    /\ preset_files' \in EditorOutcomes
    /\ camera_combo' = PopulatedCombo(CameraPlaceholder, preset_files'.cameras)
    /\ film_stock_combo' = PopulatedCombo(FilmStockPlaceholder, preset_files'.film_stocks)
    /\ lens_combo' = PopulatedCombo(LensPlaceholder, preset_files'.lenses)
    /\ \E d1 \in {on_batch_camera_changed(is_updating_ui, image_data, ClearedCombo, -1)} :
       \E d2 \in {on_batch_camera_changed(is_updating_ui, d1, camera_combo', 0)} :
       \E d3 \in {on_batch_film_stock_changed(is_updating_ui, d2, ClearedCombo, -1)} :
       \E d4 \in {on_batch_film_stock_changed(is_updating_ui, d3, film_stock_combo', 0)} :
       \E d5 \in {on_selection_lens_changed(is_updating_ui, d4, SelectedPaths,
                                            ClearedCombo, -1)} :
          image_data' = on_selection_lens_changed(is_updating_ui, d5, SelectedPaths,
                                                  lens_combo', 0)
    /\ UNCHANGED <<filmstrip_list, selected, roll_notes_edit, aperture_edit, shutter_edit,
                   progress_bar, backup_checkbox, thumbnail_workers, is_updating_ui,
                   ui_enabled, image_files, edited>>
    /\ UNCHANGED worker_vars
    /\ UNCHANGED unit_vars

\* Mutant of ApplyChanges: building the task list stores the resolved tags in
\* the records of the collection.
ApplyChanges_StoresResolvedTags ==
    /\ ui_enabled /\ actions < MaxActions
    /\ actions' = actions + 1
    /\ pc = "idle"
    /\ image_data # <<>>
    /\ tasks' = prepare_task_list(image_data)
    /\ image_data' = [i \in 1..Len(image_data) |->
                         <<image_data[i][1], Update(image_data[i][2], tasks'[i][2])>>]
    /\ ui_enabled' = FALSE
    /\ progress_bar' = setValue(progress_bar, 0)
    /\ backup_enabled' = backup_checkbox
    /\ is_running' = TRUE
    /\ pc' = "start"
    /\ UNCHANGED <<idx, backup_path, log, finished, edited>>
    /\ UNCHANGED unit_vars
    /\ UNCHANGED <<filmstrip_list, selected, camera_combo, film_stock_combo,
                   lens_combo, roll_notes_edit, aperture_edit, shutter_edit, backup_checkbox,
                   thumbnail_workers, is_updating_ui, preset_files, image_files>>

\* _apply_changes with images loaded and the confirmation accepted: the task
\* list is built, the interface disabled, and the worker created and started.
ApplyChanges ==
    /\ ui_enabled /\ actions < MaxActions
    /\ actions' = actions + 1
    /\ pc = "idle"
    /\ image_data # <<>>
    /\ prepare_task_list(image_data) # <<>>
    /\ tasks' = prepare_task_list(image_data)
    /\ ui_enabled' = FALSE
    /\ progress_bar' = setValue(progress_bar, 0)
    /\ backup_enabled' = backup_checkbox
    /\ is_running' = TRUE
    /\ pc' = "start"
    /\ UNCHANGED edited
    /\ UNCHANGED <<idx, backup_path, log, finished>>
    /\ UNCHANGED unit_vars
    /\ UNCHANGED <<image_data, filmstrip_list, selected, camera_combo, film_stock_combo,
                   lens_combo, roll_notes_edit, aperture_edit, shutter_edit, backup_checkbox,
                   thumbnail_workers, is_updating_ui, preset_files, image_files>>

\* _apply_changes when it starts no run: no image is loaded (lines 61-63), the
\* confirmation is declined (lines 65-70), or the task list is empty (lines
\* 73-76). Each path shows a message box at most.
ApplyNotStarted ==
    /\ ui_enabled /\ actions < MaxActions
    /\ actions' = actions + 1
    /\ \E reply \in {"Yes", "No"} :
          \/ image_data = <<>>
          \/ reply = "No"
          \/ prepare_task_list(image_data) = <<>>
    /\ UNCHANGED edited
    /\ UNCHANGED worker_vars
    /\ UNCHANGED unit_vars
    /\ UNCHANGED <<image_data, filmstrip_list, selected, camera_combo, film_stock_combo,
                   lens_combo, roll_notes_edit, aperture_edit, shutter_edit, progress_bar,
                   backup_checkbox, thumbnail_workers, is_updating_ui, ui_enabled,
                   preset_files, image_files>>

\* Mutant of OnApplyFinished: the interface is enabled again only after a
\* successful run.
OnApplyFinished_FailureStaysDisabled ==
    /\ pc = "done"
    /\ finished # <<>>
    /\ ui_enabled' = Head(finished).success
    /\ tasks' = <<>>
    /\ backup_enabled' = FALSE
    /\ is_running' = FALSE
    /\ pc' = "idle"
    /\ idx' = 0
    /\ backup_path' = ""
    /\ log' = <<>>
    /\ finished' = Tail(finished)
    /\ UNCHANGED <<edited, actions>>
    /\ UNCHANGED unit_vars
    /\ UNCHANGED <<image_data, filmstrip_list, selected, camera_combo, film_stock_combo,
                   lens_combo, roll_notes_edit, aperture_edit, shutter_edit, progress_bar,
                   backup_checkbox, thumbnail_workers, is_updating_ui, preset_files,
                   image_files>>

\* _on_apply_finished(success, message): the main thread handles the worker's
\* finished signal. On success the user is told and, with backups checked and
\* the folder there, asked whether to delete it (a failing rmtree is caught);
\* on failure the message is shown. Both paths end by enabling the interface
\* and by quitting and joining the write thread, which ends the run: the
\* worker is not used again.
OnApplyFinished ==
    /\ pc = "done"
    /\ finished # <<>>
    /\ \E delete_backup \in {"not asked", "No", "deleted", "rmtree raised"} :
          /\ delete_backup # "not asked" =>
                Head(finished).success /\ backup_checkbox /\ backup_path # ""
          /\ ui_enabled' = TRUE
    /\ tasks' = <<>>
    /\ backup_enabled' = FALSE
    /\ is_running' = FALSE
    /\ pc' = "idle"
    /\ idx' = 0
    /\ backup_path' = ""
    /\ log' = <<>>
    /\ finished' = Tail(finished)
    /\ UNCHANGED <<edited, actions>>
    /\ UNCHANGED unit_vars
    /\ UNCHANGED <<image_data, filmstrip_list, selected, camera_combo, film_stock_combo,
                   lens_combo, roll_notes_edit, aperture_edit, shutter_edit, progress_bar,
                   backup_checkbox, thumbnail_workers, is_updating_ui, preset_files,
                   image_files>>

\* ------------------------------------------------------------ specifications
\* One step of run().
WorkerStep == WorkerStart \/ WorkerLoopHead \/ WorkerCopy \/ WorkerWrite

\* __init__, lines 72-76, with a task list as _prepare_task_list builds it:
\* one task per image, distinct paths, at least one task (_apply_changes
\* returns early on an empty list).
WorkerInit ==
    /\ tasks \in {s \in UNION {[1..n -> Files \X {EmptyDict}] : n \in 1..MaxTasks} :
                    IsInjective(s)}
    /\ backup_enabled \in BOOLEAN
    /\ is_running = TRUE
    /\ pc = "start"
    /\ idx = 0
    /\ backup_path = ""
    /\ log = <<>>
    /\ finished = <<>>
    /\ preset_files = StoredPresets
    /\ MainWindowInit

WorkerNext == WorkerStart \/ WorkerLoopHead \/ WorkerCopy \/ WorkerWrite \/ WorkerStop

\* One apply run, from the worker's construction to its completion signal.
WorkerSpec == WorkerInit /\ [][WorkerNext]_vars

\* The thread runs run() to its end: every call it makes returns or raises.
WorkerLiveSpec == WorkerInit /\ [][WorkerNext]_vars /\ WF_vars(WorkerStep)

Init ==
    /\ preset_files = StoredPresets
    /\ MainWindowInit
    /\ NoWorker

Next ==
    \/ LoadRoll
    \/ ThumbnailFinished
    \/ BatchCameraChanged
    \/ BatchFilmStockChanged
    \/ BatchNotesChanged
    \/ FilmstripSelectionChanged
    \/ SelectionLensChanged
    \/ SelectionApertureChanged
    \/ SelectionShutterChanged
    \/ ApplyChanges

\* A session of the main window up to the start of an apply run.
Spec == Init /\ [][Next]_vars

\* ---- the task builder on bounded inputs
\* Stored presets of one category: none, or one preset of the given name.
PresetChoices(name, fields) == {EmptyDict} \cup {[x \in {name} |-> f] : f \in fields}

CameraPresetChoices ==
    PresetChoices("Canon A1", {[Make |-> "Canon", Model |-> "A1"],
                               [Make |-> "Canon", Model |-> ""],
                               [Make |-> "Canon", FNumber |-> "2", ImageDescription |-> "body"]})
        \cup PresetChoices("", {[Make |-> "Nameless"]})

FilmStockPresetChoices ==
    PresetChoices("Portra 400", {[ISO |-> "400", FilmType |-> "Color Negative"],
                                 [ISO |-> "", Make |-> "Kodak"],
                                 [ISO |-> "400", ShutterSpeedValue |-> "60"]})

LensPresetChoices ==
    PresetChoices("FD 50mm", {[LensModel |-> "nFD", FNumber |-> "1.4"],
                              [LensModel |-> "nFD", FNumber |-> ""],
                              [Make |-> "Sigma", FNumber |-> "1.4", LensSerialNumber |-> ""]})

\* The values a field of a record can hold; None stands for an absent key.
FieldChoices ==
    [Camera |-> {None, "", CameraPlaceholder, "Canon A1", "Nikon F3"},
     FilmStock |-> {None, FilmStockPlaceholder, "Portra 400"},
     Lens |-> {None, LensPlaceholder, "FD 50mm"},
     Aperture |-> {None, "", "8"},
     ShutterSpeed |-> {None, "", "125"},
     RollNotes |-> {None, "", "roll 1"}]

\* The record holding the given field values (None: no such key).
RecordOf(values) == [f \in {g \in DOMAIN values : values[g] # None} |-> values[f]]

\* The records an image can hold after edits.
RecordChoices ==
    {RecordOf(v) : v \in [Camera : FieldChoices.Camera, FilmStock : FieldChoices.FilmStock,
                          Lens : FieldChoices.Lens, Aperture : FieldChoices.Aperture,
                          ShutterSpeed : FieldChoices.ShutterSpeed,
                          RollNotes : FieldChoices.RollNotes]}

\* A session with one image loaded, its record and the stored presets drawn
\* from the bounded sets above.
TaskInit ==
    /\ preset_files \in [cameras : CameraPresetChoices, film_stocks : FilmStockPresetChoices,
                         lenses : LensPresetChoices]
    /\ image_data \in {<<<<1, d>>>> : d \in RecordChoices}
    /\ filmstrip_list = <<1>>
    /\ image_files = <<1>>
    /\ progress_bar = [value |-> 1, maximum |-> 1]
    /\ WidgetsInit
    /\ NoUnits
    /\ edited = {}
    /\ NoWorker

TaskNext == ApplyChanges

\* The task builder applied to every bounded input.
TaskSpec == TaskInit /\ [][TaskNext]_vars

\* ---- the thumbnail worker units of a roll load
\* A populated selector with any of its items current.
SelectorStates(placeholder, presets) ==
    {[PopulatedCombo(placeholder, presets) EXCEPT !.index = i] :
        i \in 0..Cardinality(DOMAIN presets)}

\* The state _load_roll leaves for a folder with image files: one empty record
\* and one unit per file, each unit created with its flag set and its thread
\* started, the progress bar at 0 of the number of files. _load_roll leaves
\* the camera and film-stock selectors as the user set them.
ThumbnailInit ==
    /\ preset_files = StoredPresets
    /\ image_files \in Listings \ {<<>>}
    /\ image_data = [i \in 1..Len(image_files) |-> <<image_files[i], EmptyDict>>]
    /\ filmstrip_list = <<>>
    /\ progress_bar = [value |-> 0, maximum |-> Len(image_files)]
    /\ selected = {}
    /\ camera_combo \in SelectorStates(CameraPlaceholder, load_presets("cameras"))
    /\ film_stock_combo \in SelectorStates(FilmStockPlaceholder, load_presets("film_stocks"))
    /\ lens_combo = PopulatedCombo(LensPlaceholder, load_presets("lenses"))
    /\ roll_notes_edit = ""
    /\ aperture_edit = ""
    /\ shutter_edit = ""
    /\ backup_checkbox = TRUE
    /\ is_updating_ui = FALSE
    /\ ui_enabled = TRUE
    /\ actions = 0
    /\ edited = {}
    /\ thumbnail_workers = [p \in Paths |-> IF p \in Range(image_files) THEN 1 ELSE 0]
    /\ thumb_units = [p \in Paths |->
                         IF p \in Range(image_files)
                         THEN [pc |-> "created", is_running |-> TRUE, tested |-> "none",
                               emitted |-> 0, icon |-> "none"]
                         ELSE NoUnit]
    /\ thumb_signals = <<>>
    /\ editor_presets = [t \in PRESET_TYPES |-> EmptyDict]
    /\ NoWorker

\* A step of a unit on its thread.
ThumbStep == ThumbRunStart \/ ThumbRead

LoadNext == ThumbStep \/ ThumbnailDelivered

ThumbnailNext == LoadNext \/ ThumbStop

\* The units of a roll load, with stop() called on any of them at any time.
ThumbnailSpec == ThumbnailInit /\ [][ThumbnailNext]_vars

\* The units of a roll load as the program runs them (it never calls stop()):
\* each thread runs its unit to the end and the main thread handles every
\* queued signal.
LoadLiveSpec ==
    ThumbnailInit /\ [][LoadNext]_vars /\ WF_vars(ThumbStep) /\ WF_vars(ThumbnailDelivered)

\* ---- apply runs of a session
\* A main window with no roll or a loaded roll (records as the load leaves
\* them) and the backup box checked or not.
ApplyInit ==
    /\ preset_files = StoredPresets
    /\ image_files \in Listings
    /\ image_data = [i \in 1..Len(image_files) |->
                        <<image_files[i], [Camera |-> CameraPlaceholder,
                                           FilmStock |-> FilmStockPlaceholder]>>]
    /\ filmstrip_list = image_files
    /\ progress_bar = IF image_files = <<>> THEN [value |-> -1, maximum |-> 100]
                      ELSE [value |-> Len(image_files), maximum |-> Len(image_files)]
    /\ selected = {}
    /\ camera_combo = PopulatedCombo(CameraPlaceholder, load_presets("cameras"))
    /\ film_stock_combo = PopulatedCombo(FilmStockPlaceholder, load_presets("film_stocks"))
    /\ lens_combo = PopulatedCombo(LensPlaceholder, load_presets("lenses"))
    /\ roll_notes_edit = ""
    /\ aperture_edit = ""
    /\ shutter_edit = ""
    /\ backup_checkbox \in BOOLEAN
    /\ is_updating_ui = FALSE
    /\ ui_enabled = TRUE
    /\ actions = 0
    /\ NoUnits
    /\ edited = {}
    /\ NoWorker

ApplyNext == ApplyChanges \/ ApplyNotStarted \/ WorkerStep \/ OnApplyFinished

\* Apply runs, one after the other: the worker thread runs run() to its end
\* and the main thread handles the finished signal (the user answers the
\* message boxes).
ApplySpec ==
    ApplyInit /\ [][ApplyNext]_vars /\ WF_vars(WorkerStep) /\ WF_vars(OnApplyFinished)

\* ------------------------------------------------------------- preset editor
\* What the user can type into the name field of PresetDataDialog.
TypedNames == {"", "  ", "Canon A1", " Nikon F3 ", "Nikon F3"}

\* str.strip() on the texts of the model.
strip(text) ==
    CASE text = "  " -> ""
      [] text = " Nikon F3 " -> "Nikon F3"
      [] OTHER -> text

\* fields_definition of the tab of each category (its keys).
fields_definition(preset_type) ==
    CASE preset_type = "cameras" -> {"Make", "Model"}
      [] preset_type = "lenses" ->
            {"LensMake", "LensModel", "FocalLength", "FNumber", "LensSerialNumber"}
      [] preset_type = "film_stocks" -> {"ISO", "FilmType"}

\* PresetDataDialog.__init__: one line edit per field, holding the existing
\* value of the field or the empty text.
InitialFields(preset_type, existing_data) ==
    [key \in fields_definition(preset_type) |-> GetOr(existing_data, key, "")]

\* The form of the category as a user fills it in.
FilledFields(preset_type) ==
    CASE preset_type = "cameras" -> [Make |-> "Nikon", Model |-> "F3"]
      [] preset_type = "lenses" ->
            [LensMake |-> "Canon", LensModel |-> "nFD", FocalLength |-> "50mm",
             FNumber |-> "1.4", LensSerialNumber |-> ""]
      [] preset_type = "film_stocks" -> [ISO |-> "200", FilmType |-> "Color Negative"]

\* What the fields of the dialog can hold when it is accepted: as the dialog
\* set them, or filled in.
FieldTexts(preset_type, existing_data) ==
    {InitialFields(preset_type, existing_data), FilledFields(preset_type)}

\* PresetDataDialog.get_data: the stripped name and the stripped fields.
get_data(name_text, fields) ==
    <<strip(name_text), [key \in DOMAIN fields |-> strip(fields[key])]>>

\* preset_manager.save_presets: the file of the category holds the data, or
\* is left as it was when it cannot be opened for writing.
SaveOutcomes == {"saved", "failed"}

save_presets(files, preset_type, data, outcome) ==
    IF outcome = "saved" THEN [files EXCEPT ![preset_type] = data] ELSE files

\* del d[k]
Del(d, k) == [x \in DOMAIN d \ {k} |-> d[x]]

\* _add_preset once the dialog is accepted with the name and the fields typed:
\* <<self.presets, the preset files>> as the handler leaves them.
add_preset(presets, files, preset_type, name_text, fields, outcome) ==
    LET preset_name == get_data(name_text, fields)[1]
        data == get_data(name_text, fields)[2]
    IN  IF preset_name = "" THEN <<presets, files>>
        ELSE IF preset_name \in DOMAIN presets THEN <<presets, files>>
        ELSE <<Put(presets, preset_name, data),
               save_presets(files, preset_type, Put(presets, preset_name, data), outcome)>>

\* _edit_preset of the current item once the dialog is accepted.
edit_preset(presets, files, preset_type, original_name, name_text, fields, outcome) ==
    LET new_name == get_data(name_text, fields)[1]
        new_data == get_data(name_text, fields)[2]
        edited_presets == Put(Del(presets, original_name), new_name, new_data)
    IN  IF new_name = "" THEN <<presets, files>>
        ELSE <<edited_presets, save_presets(files, preset_type, edited_presets, outcome)>>

\* _delete_preset of the current item once the question is answered Yes.
delete_preset(presets, files, preset_type, preset_name, outcome) ==
    IF preset_name \in DOMAIN presets
    THEN <<Del(presets, preset_name),
           save_presets(files, preset_type, Del(presets, preset_name), outcome)>>
    ELSE <<presets, files>>

\* What an operation of the preset editor leaves alone: the main window is
\* blocked behind the modal dialog.
EditorFrame ==
    /\ actions < MaxActions
    /\ actions' = actions + 1
    /\ UNCHANGED <<thumb_units, thumb_signals>>
    /\ UNCHANGED <<image_data, filmstrip_list, selected, camera_combo, film_stock_combo,
                   lens_combo, roll_notes_edit, aperture_edit, shutter_edit, progress_bar,
                   backup_checkbox, thumbnail_workers, is_updating_ui, ui_enabled,
                   image_files, edited>>
    /\ UNCHANGED worker_vars

\* The tab of the category runs the handler, whose result is left in
\* self.presets and in the preset files.
EditorLeaves(preset_type, result) ==
    /\ editor_presets' = [editor_presets EXCEPT ![preset_type] = result[1]]
    /\ preset_files' = result[2]

\* Add... on the tab of the category, the dialog accepted with this input.
AddSubmitted(preset_type, name_text, fields, outcome) ==
    /\ EditorLeaves(preset_type,
          add_preset(editor_presets[preset_type], preset_files, preset_type,
                     name_text, fields, outcome))
    /\ EditorFrame

\* Edit... on the tab of the category with this item current, the dialog
\* accepted with this input.
EditSubmitted(preset_type, original_name, name_text, fields, outcome) ==
    /\ original_name \in DOMAIN editor_presets[preset_type]
    /\ EditorLeaves(preset_type,
          edit_preset(editor_presets[preset_type], preset_files, preset_type,
                      original_name, name_text, fields, outcome))
    /\ EditorFrame

\* _add_preset: the dialog is cancelled, or accepted with a name and fields.
EditorAdd ==
    \E preset_type \in PRESET_TYPES :
        \/ /\ UNCHANGED <<editor_presets, preset_files>>
           /\ EditorFrame
        \/ \E name_text \in TypedNames :
           \E fields \in FieldTexts(preset_type, EmptyDict) :
           \E outcome \in SaveOutcomes :
              AddSubmitted(preset_type, name_text, fields, outcome)

\* _edit_preset: no current item, or the dialog opened on the current item is
\* cancelled, or accepted with the name kept or retyped and the fields.
EditorEdit ==
    \E preset_type \in PRESET_TYPES :
        \/ /\ UNCHANGED <<editor_presets, preset_files>>
           /\ EditorFrame
        \/ \E original_name \in DOMAIN editor_presets[preset_type] :
           \E name_text \in TypedNames \cup {original_name} :
           \E fields \in FieldTexts(preset_type, editor_presets[preset_type][original_name]) :
           \E outcome \in SaveOutcomes :
              EditSubmitted(preset_type, original_name, name_text, fields, outcome)

\* _delete_preset: no current item or the answer is No, or the current item is
\* deleted.
EditorDelete ==
    \E preset_type \in PRESET_TYPES :
        \/ /\ UNCHANGED <<editor_presets, preset_files>>
           /\ EditorFrame
        \/ \E preset_name \in DOMAIN editor_presets[preset_type] :
           \E outcome \in SaveOutcomes :
              /\ EditorLeaves(preset_type,
                    delete_preset(editor_presets[preset_type], preset_files, preset_type,
                                  preset_name, outcome))
              /\ EditorFrame

\* PresetEditorDialog.__init__ over a main window just constructed: each tab
\* loads the presets of its category.
EditorInit ==
    /\ preset_files = StoredPresets
    /\ image_data = <<>>
    /\ filmstrip_list = <<>>
    /\ image_files = <<>>
    /\ progress_bar = [value |-> -1, maximum |-> 100]
    /\ WidgetsInit
    /\ edited = {}
    /\ thumbnail_workers = [p \in Paths |-> 0]
    /\ thumb_units = [p \in Paths |-> NoUnit]
    /\ thumb_signals = <<>>
    /\ editor_presets = [t \in PRESET_TYPES |-> load_presets(t)]
    /\ NoWorker

EditorNext == EditorAdd \/ EditorEdit \/ EditorDelete

EditorSpec == EditorInit /\ [][EditorNext]_vars

\* ---- selections in a loaded roll
\* The records the images of a loaded roll can hold after edits of the
\* selection fields: camera and film stock as set when the load finished.
SelectionRecordChoices ==
    {RecordOf(v) : v \in [Camera : {CameraPlaceholder}, FilmStock : {FilmStockPlaceholder},
                          Lens : {None, LensPlaceholder, "FD 50mm"},
                          Aperture : {None, "8"},
                          ShutterSpeed : {"", "125"}]}

\* A roll is loaded, every thumbnail has arrived in the order of the files,
\* the selection fields of the images were edited and nothing is selected.
SelectionInit ==
    /\ preset_files = StoredPresets
    /\ image_files \in Listings \ {<<>>}
    /\ filmstrip_list = image_files
    /\ image_data \in {[i \in 1..Len(image_files) |-> <<image_files[i], r[i]>>] :
                          r \in [1..Len(image_files) -> SelectionRecordChoices]}
    /\ progress_bar = [value |-> Len(image_files), maximum |-> Len(image_files)]
    /\ WidgetsInit
    /\ NoUnits
    /\ edited = SelectionFields
    /\ NoWorker

SelectionNext == FilmstripSelectionChanged \/ OpenPresetEditor

\* The user selects images of the loaded roll and uses the preset editor.
SelectionSpec == SelectionInit /\ [][SelectionNext]_vars

\* ------------------------------------------------- observations of one run
\* Positions of the log holding an event of the given kind.
Events(kind) == {i \in 1..Len(log) : log[i].ev = kind}

\* Files copied into the backup folder so far.
Copied == {log[i].file : i \in {j \in Events("copy") : log[j].ok}}

\* Files on which write_metadata has been invoked so far.
WriteAttempted == {log[i].file : i \in Events("write")}

\* Files whose write_metadata returned True so far.
Written == {log[i].file : i \in {j \in Events("write") : log[j].ok}}

\* The paths of the first k tasks.
FirstFiles(k) == {tasks[i][1] : i \in 1..k}

\* ------------------------------------------------------------------ claims
\* C1: in a run with backups enabled every file on which the write has been
\* invoked was copied into the backup folder before, in every state of the run.
C1_BackupBeforeWrite ==
    backup_enabled =>
        /\ WriteAttempted \subseteq Copied
        /\ \A j \in Events("write") :
              \E i \in Events("copy") : i < j /\ log[i].ok /\ log[i].file = log[j].file

C1_Witness ==
    backup_enabled /\ Cardinality(WriteAttempted) >= 2 /\ WriteAttempted = Copied

\* C2: with backups enabled, when the write of the k-th task is the first to
\* return False, exactly tasks 1..k-1 are written, exactly tasks 1..k are
\* copied, nothing after k is copied or written, and the single completion is
\* a failure whose message names the k-th file and refers to the backup folder.
C2_FailFast ==
    \A j \in Events("write") :
        (backup_enabled /\ log[j].result = "false") =>
            LET k == log[j].idx + 1 IN
            /\ j = Len(log)
            /\ Written = FirstFiles(k - 1)
            /\ Copied = FirstFiles(k)
            /\ WriteAttempted = FirstFiles(k)
            /\ pc = "done"
            /\ Len(finished) = 1
            /\ finished[1].success = FALSE
            /\ finished[1].message.error = "Failed to write metadata"
            /\ finished[1].message.file = tasks[k][1]
            /\ finished[1].message.safe_in = <<BackupFolder>>

C2_Witness ==
    /\ backup_enabled
    /\ Len(tasks) = 3
    /\ pc = "done"
    /\ \E j \in Events("write") : log[j].result = "false" /\ log[j].idx = 1
    /\ Cardinality(Written) = 1
    /\ Cardinality(Copied) = 2

\* The stop flag was set before the loop tested it for the first file.
StoppedBeforeFirstFile ==
    \E s \in Events("stop") : \A i \in 1..(s - 1) : log[i].ev = "mkdir"

\* C3: when the stop flag is set before the first file is processed, no file is
\* ever copied or written, and the run ends with one failure completion.
C3_StopBeforeFirstFile ==
    StoppedBeforeFirstFile =>
        /\ Events("progress") = {} /\ Events("copy") = {} /\ Events("write") = {}
        /\ pc = "done" => /\ Len(finished) = 1
                          /\ finished[1].success = FALSE

C3_Witness ==
    /\ StoppedBeforeFirstFile
    /\ backup_enabled
    /\ pc = "done"
    /\ finished[1].message.error = "cancelled"

\* The stop event of the log (there is at most one: the flag is never set again).
StopAt == CHOOSE s \in Events("stop") : TRUE

\* No event of a file other than the one in progress when the flag was set
\* follows the stop event.
NoLaterFile ==
    \A i \in (Events("progress") \cup Events("copy") \cup Events("write")) :
        i > StopAt =>
            /\ log[StopAt].at \in {"copy", "write"}
            /\ log[i].idx = log[StopAt].idx
            /\ log[i].ev # "progress"

\* The flag was set after the loop had tested it for the last file: while the
\* last file was being copied or written, or after its write.
StoppedAfterLastTest ==
    \/ log[StopAt].at \in {"copy", "write"} /\ log[StopAt].idx = Len(tasks) - 1
    \/ log[StopAt].idx = Len(tasks)

\* C4 as claimed: a stop flag set at any point of a run always ends the run in
\* a failure with the cancelled reason, and no later file is processed.
C4_StopAlwaysCancels ==
    (pc = "done" /\ Events("stop") # {}) =>
        /\ NoLaterFile
        /\ finished[1].success = FALSE
        /\ finished[1].message.error = "cancelled"

\* C4 amended: after the stop flag is set no file after the one in progress is
\* processed and the writes completed before stay; the run reports success only
\* when the flag was set after its last test (while the last file was in
\* progress, or later) and every write succeeded, and otherwise reports
\* failure, with the cancelled reason unless the step in progress when the
\* flag was set failed itself.
C4_StopBetweenFiles ==
    Events("stop") # {} =>
        /\ NoLaterFile
        /\ FirstFiles(log[StopAt].idx) \subseteq Written
        /\ pc = "done" =>
            /\ Len(finished) = 1
            /\ finished[1].success <=>
                  /\ StoppedAfterLastTest
                  /\ Written = FirstFiles(Len(tasks))
            /\ (~finished[1].success /\ finished[1].message.error # "cancelled") =>
                  /\ Len(log) > StopAt
                  /\ ~log[Len(log)].ok
            /\ (~finished[1].success /\ finished[1].message.error = "cancelled") =>
                  Written = FirstFiles(idx)

C4_Witness ==
    /\ pc = "done"
    /\ Events("stop") # {}
    /\ log[StopAt].at = "write"
    /\ log[StopAt].idx = 0
    /\ Len(tasks) >= 2
    /\ finished[1].message.error = "cancelled"
    /\ Written = FirstFiles(1)

\* What holds of the completion signals in every state of a run.
CompletionOnce ==
    /\ Len(finished) <= 1
    /\ Len(finished) = 1 <=> pc = "done"
    /\ pc = "done" =>
        /\ finished[1].success <=> Written = FirstFiles(Len(tasks))
        /\ finished[1].success =>
              finished[1].message = (IF backup_enabled THEN BackupFolder ELSE "")
        /\ ~finished[1].success =>
              finished[1].message.safe_in =
                  (IF backup_enabled THEN <<BackupFolder>> ELSE <<>>)

\* C5: every run ends, with exactly one completion signal: success carrying
\* the backup path exactly when every write succeeded, otherwise failure whose
\* message refers to the backup folder exactly when backups were enabled.
C5_OneCompletion == [](CompletionOnce) /\ <>(pc = "done")

C5_Witness ==
    /\ pc = "done"
    /\ Len(tasks) >= 2
    /\ backup_enabled
    /\ finished[1].success

\* C6: the k-th progress report carries floor(k/total*100), is emitted after the
\* k-th file has been copied (with backups) and written, so 100 is reported
\* only once every file is written; the percentages never decrease.
C6_ProgressAfterFile ==
    \A j \in Events("progress") :
        LET k == log[j].idx + 1 IN
        /\ Cardinality({i \in Events("progress") : i <= j}) = k
        /\ log[j].percent = (k * 100) \div Len(tasks)
        /\ \E i \in Events("write") : i < j /\ log[i].ok /\ log[i].idx = k - 1
        /\ backup_enabled =>
              \E i \in Events("copy") : i < j /\ log[i].ok /\ log[i].idx = k - 1
        /\ log[j].percent = 100 => Written = FirstFiles(Len(tasks))
        /\ \A i \in Events("progress") : i < j => log[i].percent <= log[j].percent

\* --------------------------------------------------------------- task list
\* The fields a preset name contributes: those of the preset of that name,
\* nothing for an absent, empty or unknown name.
PresetFields(presets, name) ==
    IF name # None /\ name # "" /\ name \in DOMAIN presets THEN presets[name] ELSE EmptyDict

\* The tags set from the per-image fields that are present and non-empty.
Overrides(data) ==
    LET tag == [Aperture |-> "FNumber", ShutterSpeed |-> "ShutterSpeedValue",
                RollNotes |-> "ImageDescription"]
        set == {f \in DOMAIN tag : f \in DOMAIN data /\ data[f] # ""}
    IN  [t \in {tag[f] : f \in set} |-> data[CHOOSE f \in set : tag[f] = t]]

\* The reference result: each tag takes its value from the last of the layers
\* camera, film stock, lens, overrides that has it; empty values are removed.
ReferenceMapping(data, presets) ==
    LET layers == <<PresetFields(presets.cameras, Get(data, "Camera")),
                    PresetFields(presets.film_stocks, Get(data, "FilmStock")),
                    PresetFields(presets.lenses, Get(data, "Lens")),
                    Overrides(data)>>
        tags == UNION {DOMAIN layers[i] : i \in 1..4}
        top(t) == layers[CHOOSE i \in 1..4 :
                            /\ t \in DOMAIN layers[i]
                            /\ \A j \in (i + 1)..4 : t \notin DOMAIN layers[j]][t]
    IN  [t \in {u \in tags : top(u) # ""} |-> top(t)]

\* The example of the specification: its presets, its record, its result.
ExamplePresets == [x \in {"Canon A1"} |-> [Make |-> "Canon", Model |-> "A1"]]
ExampleRecord == [Camera |-> "Canon A1", Aperture |-> "8"]
ExampleMapping == [Make |-> "Canon", Model |-> "A1", FNumber |-> "8"]

\* C7: when the task list has been built, the mapping of every task equals the
\* reference result for the record of its image and the stored presets (camera,
\* then film stock, then lens, then the Aperture, ShutterSpeed and RollNotes
\* overrides, then empty values removed); no mapping holds an empty value; and
\* the Canon A1 preset with Camera = Canon A1 and Aperture = 8 gives exactly
\* Make, Model and FNumber 8.
C7_ResolvedMapping ==
    pc = "start" =>
        /\ Len(tasks) = Len(image_data)
        /\ \A i \in 1..Len(tasks) :
            /\ tasks[i][2] = ReferenceMapping(image_data[i][2], preset_files)
            /\ \A t \in DOMAIN tasks[i][2] : tasks[i][2][t] # ""
            /\ (preset_files.cameras = ExamplePresets /\ image_data[i][2] = ExampleRecord)
                  => tasks[i][2] = ExampleMapping

\* The task list was built for the example of the specification.
C7_Witness ==
    /\ pc = "start"
    /\ preset_files.cameras = ExamplePresets
    /\ image_data[1][2] = ExampleRecord
    /\ tasks[1][2] = ExampleMapping

\* C8: the collection holds the files of the latest load in their order, and
\* a task list that has been built holds exactly one task per image of the
\* collection, in that order, whatever became of the thumbnails and whatever
\* the mappings are.
C8_OneTaskPerImage ==
    /\ [i \in 1..Len(image_data) |-> image_data[i][1]] = image_files
    /\ IsInjective(image_files)
    /\ pc = "start" =>
        /\ Len(tasks) = Len(image_files)
        /\ \A i \in 1..Len(tasks) : tasks[i][1] = image_files[i]

\* Tasks were built for two images, one of which has no item in the list
\* widget although every thumbnail worker has reported, and one of which has
\* an empty mapping.
C8_Witness ==
    /\ pc = "start"
    /\ Len(tasks) = 2
    /\ \A p \in Paths : thumbnail_workers[p] = 0
    /\ \E i \in 1..Len(image_data) : image_data[i][1] \notin Range(filmstrip_list)
    /\ \E i \in 1..Len(tasks) : tasks[i][2] = EmptyDict

\* ------------------------------------------------------------ batch fields
\* The value the batch editor shows for a batch field.
BatchValue(field) ==
    CASE field = "Camera" -> itemText(camera_combo, camera_combo.index)
      [] field = "FilmStock" -> itemText(film_stock_combo, film_stock_combo.index)
      [] field = "RollNotes" -> roll_notes_edit

\* A roll is loaded and every thumbnail worker has reported.
RollLoaded == image_data # <<>> /\ \A p \in Paths : thumbnail_workers[p] = 0

\* C9: once a roll is loaded and its thumbnails are done, with no selection
\* field edited so far and no apply run started, every record holds for each
\* batch field that was edited the value the batch editor shows, whatever the
\* order of the edits, the load and the thumbnails.
C9_BatchFieldsHoldLastValue ==
    (pc = "idle" /\ RollLoaded /\ edited \cap SelectionFields = {}) =>
        \A f \in edited : \A i \in 1..Len(image_data) :
            Get(image_data[i][2], f) = BatchValue(f)

\* -------------------------------------------------------- selection fields
\* What an edit of a selection field leaves: the same images in the same
\* order, the value in the field of every selected image, every other record
\* as it was.
SelectionEditPost(field, value) ==
    /\ Len(image_data') = Len(image_data)
    /\ \A i \in 1..Len(image_data) :
        /\ image_data'[i][1] = image_data[i][1]
        /\ IF image_data[i][1] \in SelectedPaths
           THEN /\ Get(image_data'[i][2], field) = value
                /\ \A f \in DOMAIN image_data[i][2] \ {field} :
                      Get(image_data'[i][2], f) = image_data[i][2][f]
                /\ DOMAIN image_data'[i][2] = DOMAIN image_data[i][2] \cup {field}
           ELSE image_data'[i] = image_data[i]
    /\ SelectedPaths = {} => image_data' = image_data

\* C10: an edit of Lens, Aperture or ShutterSpeed leaves the new value in the
\* record of every selected image and every unselected record unchanged; with
\* nothing selected it changes no record.
C10_SelectionEdit ==
    [][/\ SelectionLensChanged =>
            SelectionEditPost("Lens", itemText(lens_combo', lens_combo'.index))
       /\ SelectionApertureChanged => SelectionEditPost("Aperture", aperture_edit')
       /\ SelectionShutterChanged => SelectionEditPost("ShutterSpeed", shutter_edit')]_vars

\* Two images are selected and the aperture typed into the field is in the
\* record of both.
C10_Witness ==
    /\ Cardinality(SelectedPaths \cap Keys(image_data)) > 1
    /\ "Aperture" \in edited
    /\ aperture_edit # ""
    /\ \A i \in 1..Len(image_data) :
          image_data[i][1] \in SelectedPaths => Get(image_data[i][2], "Aperture") = aperture_edit

\* ------------------------------------------------------- order of the run
\* Positions of the log holding a copy or a write of a file.
FileSteps == Events("copy") \cup Events("write")

\* C15: the copies and writes of a run come in task-list order, one file at a
\* time: each step is on the file of its task, no step of an earlier task
\* follows a step of a later one, no file is copied or written twice, and a
\* step of a task happens only after the write of every earlier task returned
\* True.
C15_SequentialInOrder ==
    /\ \A p \in FileSteps : log[p].file = tasks[log[p].idx + 1][1]
    /\ \A p, q \in FileSteps : p < q => log[p].idx <= log[q].idx
    /\ \A p, q \in FileSteps : (log[p].idx = log[q].idx /\ log[p].ev = log[q].ev) => p = q
    /\ \A q \in FileSteps : \A i \in 0..(log[q].idx - 1) :
          \E p \in Events("write") : p < q /\ log[p].idx = i /\ log[p].ok

\* Three files were copied and written, one after the other.
C15_Witness ==
    /\ Len(tasks) >= 3
    /\ backup_enabled
    /\ Cardinality(Events("copy")) >= 3
    /\ Cardinality({p \in Events("write") : log[p].ok}) >= 3

\* The creation of the backup folder failed.
MkdirFailed == \E m \in Events("mkdir") : ~log[m].ok

\* C16: with backups enabled, when the backup folder cannot be created, the
\* run is over with exactly one completion, a failure; nothing is copied,
\* nothing is written and no progress is reported.
C16_MkdirFailureFailsRun ==
    MkdirFailed =>
        /\ backup_enabled
        /\ Events("progress") = {} /\ Events("copy") = {} /\ Events("write") = {}
        /\ pc = "done"
        /\ Len(finished) = 1
        /\ ~finished[1].success

\* The run of a list of several tasks ended at the creation of the folder.
C16_Witness ==
    /\ MkdirFailed
    /\ Len(tasks) >= 2
    /\ pc = "done"
    /\ finished[1].message.error = "makedirs"
    /\ Events("stop") = {}

\* ------------------------------------------------------- during an apply run
\* C12: while an apply run is in progress no step changes the collection:
\* no record is mutated and the collection is not cleared or reloaded.
C12_CollectionFrozenDuringApply ==
    [][pc # "idle" => image_data' = image_data]_vars

\* ----------------------------------------------------- one field per edit
\* A step that leaves the images and their order, changes at most the given
\* field in the records of the given paths, and leaves every other record
\* as it was.
OnlyFieldChanged(field, paths) ==
    /\ Len(image_data') = Len(image_data)
    /\ \A i \in 1..Len(image_data) :
        /\ image_data'[i][1] = image_data[i][1]
        /\ IF image_data[i][1] \in paths
           THEN /\ DOMAIN image_data'[i][2] \ {field} = DOMAIN image_data[i][2] \ {field}
                /\ \A f \in DOMAIN image_data[i][2] \ {field} :
                      image_data'[i][2][f] = image_data[i][2][f]
           ELSE image_data'[i][2] = image_data[i][2]

\* C18: an edit of a batch field changes no other field of any record, an
\* edit of a selection field changes no other field of the selected records
\* and nothing in the others, and no edit adds or removes an image.
C18_EditTouchesOneField ==
    [][/\ BatchCameraChanged => OnlyFieldChanged("Camera", Keys(image_data))
       /\ BatchFilmStockChanged => OnlyFieldChanged("FilmStock", Keys(image_data))
       /\ BatchNotesChanged => OnlyFieldChanged("RollNotes", Keys(image_data))
       /\ SelectionLensChanged => OnlyFieldChanged("Lens", SelectedPaths)
       /\ SelectionApertureChanged => OnlyFieldChanged("Aperture", SelectedPaths)
       /\ SelectionShutterChanged => OnlyFieldChanged("ShutterSpeed", SelectedPaths)]_vars

\* The aperture was typed with one of two images selected: the record of the
\* selected image holds it next to its camera and film stock, the other
\* record has no aperture.
C18_Witness ==
    /\ "Aperture" \in edited
    /\ aperture_edit # ""
    /\ Len(image_data) = 2
    /\ \E i, j \in 1..Len(image_data) :
        /\ image_data[i][1] \in SelectedPaths
        /\ DOMAIN image_data[i][2] = {"Camera", "FilmStock", "Aperture"}
        /\ image_data[i][2]["Aperture"] = aperture_edit
        /\ image_data[j][1] \notin SelectedPaths
        /\ DOMAIN image_data[j][2] = {"Camera", "FilmStock"}

SelectedRecord ==
    LET path == filmstrip_list'[CHOOSE i \in selected' : TRUE]
    IN  IF path \in Keys(image_data') THEN Record(image_data', path) ELSE EmptyDict

\* C11: after a change of the selection to exactly one image the lens
\* selector, the aperture field and the shutter field show the values stored
\* in the record of that image, the placeholder or the empty text standing
\* for an absent field.
C11_SelectionRoundTrip ==
    [][(FilmstripSelectionChanged /\ Cardinality(selected') = 1) =>
          /\ itemText(lens_combo', lens_combo'.index) =
                GetOr(SelectedRecord, "Lens", LensPlaceholder)
          /\ aperture_edit' = GetOr(SelectedRecord, "Aperture", "")
          /\ shutter_edit' = GetOr(SelectedRecord, "ShutterSpeed", "")]_vars

\* C17: a change of the selection, to no image, to one or to several, leaves
\* every record of the collection as it was, so that each selected image
\* keeps its own lens, aperture and shutter speed.
C17_SelectionChangeKeepsRecords ==
    [][FilmstripSelectionChanged => image_data' = image_data]_vars

\* Two images holding different lenses and apertures are selected together,
\* and the selection fields are cleared.
C17_Witness ==
    /\ \E i, j \in selected :
        /\ filmstrip_list[i] \in Keys(image_data) /\ filmstrip_list[j] \in Keys(image_data)
        /\ Get(Record(image_data, filmstrip_list[i]), "Lens") = "FD 50mm"
        /\ Get(Record(image_data, filmstrip_list[j]), "Lens") = None
        /\ Get(Record(image_data, filmstrip_list[i]), "Aperture") = "8"
        /\ Get(Record(image_data, filmstrip_list[j]), "Aperture") = None
    /\ lens_combo.index = 0
    /\ aperture_edit = ""

\* ---- C13
\* The units _load_roll started.
StartedUnits == Range(image_files)

\* How many queued finished signals carry the path.
QueuedFor(path) == Cardinality({i \in 1..Len(thumb_signals) : thumb_signals[i][1] = path})

\* How many finished signals of the path the main thread has handled.
HandledFor(path) == 1 - thumbnail_workers[path]

\* C13 as stated: every started thumbnail unit whose run has returned has
\* reported exactly once, whether decoding succeeded, failed or raised, or the
\* unit's stop flag was set.
C13_EveryUnitReportsOnce ==
    \A p \in StartedUnits : thumb_units[p].pc = "returned" => thumb_units[p].emitted = 1

\* C13 (amended): a started thumbnail unit never reports twice, and every
\* report carries its own path; a unit whose run has returned has reported
\* exactly once when run() found the stop flag clear (whatever the decoding did,
\* and also when the flag was set afterwards, while it was decoding), and has
\* not reported at all when run() found the flag set.
C13_ReportsOnceUnlessStoppedBeforeRun ==
    \A p \in Paths :
        /\ thumb_units[p].emitted <= 1
        /\ QueuedFor(p) + (IF p \in StartedUnits THEN HandledFor(p) ELSE 0)
              = thumb_units[p].emitted
        /\ thumb_units[p].pc = "returned" =>
              /\ thumb_units[p].tested = "running" => thumb_units[p].emitted = 1
              /\ thumb_units[p].tested = "stopped" => thumb_units[p].emitted = 0

\* One unit was stopped before its run and returned without reporting, and
\* another was stopped while decoding and reported all the same.
C13_Witness ==
    \E p, q \in StartedUnits :
        /\ thumb_units[p].pc = "returned" /\ thumb_units[p].tested = "stopped"
        /\ thumb_units[p].emitted = 0
        /\ thumb_units[q].pc = "returned" /\ thumb_units[q].tested = "running"
        /\ ~thumb_units[q].is_running /\ thumb_units[q].emitted = 1

\* ---- C19
\* The units whose finished signal the main thread has handled.
HandledUnits == {p \in StartedUnits : HandledFor(p) = 1}

\* The load-finished step has run: every record holds the camera and the film
\* stock the selectors show.
Prepopulated ==
    \A i \in 1..Len(image_data) :
        /\ Get(image_data[i][2], "Camera") = itemText(camera_combo, camera_combo.index)
        /\ Get(image_data[i][2], "FilmStock")
              = itemText(film_stock_combo, film_stock_combo.index)

\* While the thumbnails of a roll are loading, the visual list holds exactly
\* the handled images that decoded, once each; the failed ones are absent from
\* it and every image of the roll keeps its record; the progress value is the
\* number of reports handled; the load-finished step has run exactly when the
\* progress value is the number of images, which needs every unit's report.
LoadState ==
    /\ Range(filmstrip_list) = {p \in HandledUnits : thumb_units[p].icon = "icon"}
    /\ Len(filmstrip_list) = Cardinality(Range(filmstrip_list))
    /\ Keys(image_data) = StartedUnits
    /\ Len(image_data) = Len(image_files)
    /\ progress_bar.value = Cardinality(HandledUnits)
    /\ progress_bar.maximum = Len(image_files)
    /\ IF progress_bar.value = progress_bar.maximum
       THEN Prepopulated /\ HandledUnits = StartedUnits
       ELSE \A i \in 1..Len(image_data) : image_data[i][2] = EmptyDict

\* A handled report with an icon puts its image at the end of the visual list
\* (completion order); the records change in one step only, the one that
\* handles the last report.
LoadSteps ==
    /\ (filmstrip_list' # filmstrip_list =>
           /\ thumb_signals # <<>>
           /\ filmstrip_list' = Append(filmstrip_list, Head(thumb_signals)[1]))
    /\ (image_data' # image_data =>
           /\ progress_bar.value + 1 = progress_bar.maximum
           /\ progress_bar'.value = progress_bar.maximum
           /\ HandledUnits' = StartedUnits)

\* Every unit has reported and the load of the roll is complete.
LoadComplete ==
    /\ progress_bar.value = Len(image_files)
    /\ HandledUnits = StartedUnits
    /\ Prepopulated

\* C19: in a roll load of n images of which any subset fails to decode, in any
\* completion order, every image that decoded is added to the visual list, the
\* failed ones are absent from it but keep their records, and the load
\* eventually completes: the progress reaches n and the load-finished step runs
\* once, after all n units have reported.
C19_DecodeFailureIsolated ==
    /\ [](LoadState)
    /\ [][LoadSteps]_vars
    /\ <>[](LoadComplete)

\* A roll of two images is loaded: one failed to decode and is absent from the
\* visual list, the other is in it, and both have their records prepopulated.
C19_Witness ==
    /\ Len(image_files) = 2
    /\ LoadComplete
    /\ Len(filmstrip_list) = 1
    /\ \E p \in StartedUnits : thumb_units[p].icon = "null" /\ p \notin Range(filmstrip_list)
    /\ Len(image_data) = 2

\* ---- C14
\* The name is one the preset editor is said to reject: empty, or the name of
\* a preset of the category other than the one being edited (None on add).
RejectedName(preset_type, original_name, preset_name) ==
    \/ preset_name = ""
    \/ /\ preset_name \in DOMAIN editor_presets[preset_type]
       /\ preset_name # original_name

\* C14: an add or an edit in the preset editor whose submitted name is empty,
\* or is the name of a different existing preset of the same category, changes
\* neither the in-memory presets nor the preset files.
C14_RejectedWithoutChange ==
    [][\A preset_type \in PRESET_TYPES : \A name_text \in TypedNames :
       \A outcome \in SaveOutcomes :
          /\ \A fields \in FieldTexts(preset_type, EmptyDict) :
                (/\ AddSubmitted(preset_type, name_text, fields, outcome)
                 /\ RejectedName(preset_type, None, strip(name_text)))
                => UNCHANGED <<editor_presets, preset_files>>
          /\ \A original_name \in DOMAIN editor_presets[preset_type] :
             \A fields \in FieldTexts(preset_type,
                                      editor_presets[preset_type][original_name]) :
                (/\ EditSubmitted(preset_type, original_name, name_text, fields, outcome)
                 /\ RejectedName(preset_type, original_name, strip(name_text)))
                => UNCHANGED <<editor_presets, preset_files>>
      ]_vars

\* ---- C21
\* C21: after every add, edit or delete in the preset editor, also one whose
\* save reports failure, loading a category returns exactly the presets its
\* tab holds in memory.
C21_StoredEqualsShown ==
    \A preset_type \in PRESET_TYPES : load_presets(preset_type) = editor_presets[preset_type]

\* ---- C22
\* The step that handles the last thumbnail completion of a roll load.
LoadFinishes == ThumbnailFinished /\ progress_bar.value + 1 = progress_bar.maximum

\* C22: when a roll load finishes, the Camera, FilmStock and RollNotes of
\* every record are the values the batch editor shows, also those entered
\* before the roll was loaded (a record without the field counts as holding
\* the empty text).
C22_LoadFinishAppliesBatchFields ==
    [][LoadFinishes =>
          \A i \in 1..Len(image_data') : \A f \in BatchFields :
             GetOr(image_data'[i][2], f, "") = BatchValue(f)]_vars

\* ---- C23
\* No thumbnail worker is in flight.
AllReported == \A p \in Paths : thumbnail_workers[p] = 0

\* C23: under every interleaving of roll loads and thumbnail completions,
\* also a second load while workers of the first are still running, every item
\* of the visual list is an image of the current collection, no image appears
\* twice, and the load-finished step happens exactly when every worker has
\* reported: no worker is in flight after it, and outside an apply run a
\* loaded roll whose workers have all reported has its progress complete.
C23_ListMatchesCurrentRoll ==
    /\ [](/\ Range(filmstrip_list) \subseteq Keys(image_data)
          /\ IsInjective(filmstrip_list)
          /\ (pc = "idle" /\ image_data # <<>> /\ AllReported) =>
                progress_bar.value = progress_bar.maximum)
    /\ [][LoadFinishes => AllReported']_vars

\* ---- C25
\* C25: with backups enabled, when the copy of the k-th file fails, no write is
\* attempted on that file or on a later one (tasks 1..k-1 are the ones copied
\* and written, and the failed copy is the last thing the run did) and the
\* single completion is a failure; and whenever a failure message says the
\* originals are safe in the backup folder, every file on which a write was
\* attempted has a copy there.
C25_CopyFailureStopsRun ==
    /\ \A j \in Events("copy") :
          (backup_enabled /\ ~log[j].ok) =>
             LET k == log[j].idx + 1 IN
             /\ j = Len(log)
             /\ WriteAttempted = FirstFiles(k - 1)
             /\ Copied = FirstFiles(k - 1)
             /\ pc = "done"
             /\ Len(finished) = 1
             /\ finished[1].success = FALSE
             /\ finished[1].message.error = "copy2"
    /\ \A m \in 1..Len(finished) :
          (~finished[m].success /\ finished[m].message.safe_in # <<>>) =>
             WriteAttempted \cup Written \subseteq Copied

\* The copy of the second of three files failed after the first file was
\* copied and written; the failure message refers to the backup folder.
C25_Witness ==
    /\ backup_enabled
    /\ Len(tasks) = 3
    /\ pc = "done"
    /\ \E j \in Events("copy") : ~log[j].ok /\ log[j].idx = 1
    /\ Written = FirstFiles(1)
    /\ finished[1].message.safe_in = <<BackupFolder>>

\* ---- C26
\* C26: opening and closing the preset editor, which clears and repopulates
\* the three selectors with their handlers connected, leaves every record as
\* it was.
C26_EditorLeavesRecords == [][OpenPresetEditor => image_data' = image_data]_vars

\* ---- C24
\* An apply run is in flight: its worker was started and its completion has
\* not been handled yet.
RunInFlight == pc # "idle"

\* C24: the interface is disabled exactly while an apply run is in flight. A
\* run starts only from the enabled interface with no run in flight (so there
\* is never a second one) and disables it; the interface is enabled again only
\* by the step that handles the completion of that run, after a success and
\* after a failure, and every run gets there; a declined confirmation or an
\* apply with no images starts no run and disables nothing.
C24_DisabledExactlyDuringRun ==
    /\ [](ui_enabled <=> ~RunInFlight)
    /\ [](Len(finished) <= 1)
    /\ [][(~RunInFlight /\ RunInFlight') => (ui_enabled /\ ~ui_enabled' /\ pc' = "start")]_vars
    /\ [][(~ui_enabled /\ ui_enabled') =>
             (pc = "done" /\ Len(finished) = 1 /\ ~RunInFlight')]_vars
    /\ [][ApplyNotStarted => (ui_enabled' /\ ~RunInFlight' /\ UNCHANGED worker_vars)]_vars
    /\ (~ui_enabled ~> ui_enabled)

\* A second run is in flight, with the interface disabled, after a first run
\* that failed and was handled.
C24_Witness ==
    /\ actions = 2
    /\ pc = "done"
    /\ ~ui_enabled
    /\ Len(finished) = 1
    /\ ~finished[1].success

====
